---- MODULE Spec2Model ----
(***************************************************************************)
(* A model of the node repository of dougfort/nodes: node::Node,           *)
(* repo::HashMapRepo (root, get, put) and the two walks the NodeRepo trait *)
(* provides on top of them (traverse, bfs_dump).                           *)
(*                                                                         *)
(* The repository is used by one owner at a time (&self / &mut self), so a *)
(* walk is never interleaved with a put: put, get and the start of a walk  *)
(* are enabled only while no walk is running.  A walk is modelled one loop *)
(* iteration at a time.                                                    *)
(***************************************************************************)
EXTENDS Integers, Sequences, FiniteSets, TLC

\* ------------------------------------------------------------------ bounds
\* NodeIds used by the callers are 0 .. MaxNodeId.
MaxNodeId == 3

NodeIds == 0 .. MaxNodeId

\* ------------------------------------------------------------ node model
\* node::Content, a closed sum of three variants.
Edges(e) == [variant |-> "Edges", edges |-> e, text |-> ""]

String(s) == [variant |-> "String", edges |-> <<>>, text |-> s]

Path(s) == [variant |-> "Path", edges |-> <<>>, text |-> s]

\* node::Node, a passive value: id, tag set, content.
Node(id, tags, content) == [id |-> id, tags |-> tags, content |-> content]

\* The (tags, content) pairs the callers store: the leaves "aaa" under tag1
\* and "bbb" under tag2 and the containers [3] and [1, 2] of the tables in
\* repo.rs's tests and in nodecli.rs, the container [1, 2] carrying a tag, and
\* an untagged Path leaf.  Every id may hold every payload, so the stores
\* include self loops (3 -> [3]), loops through an ancestor (3 -> [1, 2] with
\* 1 -> [3]), ids listed by several nodes and ids that are not stored.
Payloads ==
    { [tags |-> {"tag1"}, content |-> String("aaa")],
      [tags |-> {"tag2"}, content |-> String("bbb")],
      [tags |-> {}, content |-> Path("ccc")],
      [tags |-> {}, content |-> Edges(<<3>>)],
      [tags |-> {"tag1"}, content |-> Edges(<<1, 2>>)] }

Nodes == { Node(i, p.tags, p.content) : i \in NodeIds, p \in Payloads }

\* ---------------------------------------------------------------- results
\* Option<T>
None == [some |-> FALSE]

Some(v) == [some |-> TRUE, val |-> v]

\* Result<T, NodeRepoError>
Ok(v) == [ok |-> TRUE, val |-> v]

UnknownNodeId(id) == [kind |-> "UnknownNodeId", id |-> id]

Err(e) == [ok |-> FALSE, err |-> e]

\* The unit value ().
Unit == <<>>

\* A value returned as it is, outside any Result (root's NodeId).
Plain(v) == [plain |-> v]

\* ---------------------------------------------------------------- filters
\* A filter closure is represented by what it captured.
AcceptAll == [kind |-> "accept_all", tag |-> ""]

MatchTag(t) == [kind |-> "match_tag", tag |-> t]

Filters == {AcceptAll, MatchTag("tag1"), MatchTag("tag2")}

\* A closure that accepts every node that carries a tag.
match_any_tag(t, tags) == tags # {}

\* Calling the closure f on a tag set.
create_match_tag_filter(t, tags) == t \in tags

\* A filter that accepts only the nodes that carry a tag.
accept_tagged(tags) == tags # {}

create_accept_all_filter(tags) == TRUE

filter(f, tags) ==
    IF f.kind = "match_tag"
    THEN create_match_tag_filter(f.tag, tags)
    ELSE create_accept_all_filter(tags)

\* ------------------------------------------------------------------- state
VARIABLES
    root,      \* HashMapRepo.root
    repo,      \* HashMapRepo.repo: a map, here a function on the stored keys
    pc,        \* "idle", or the walk that is running: "traverse", "bfs_dump"
    call,      \* the operation called last and its arguments
    ret,       \* what it returned; Pending while a walk is running
    stack,     \* the walk's local: work list, top at the end
    visited,   \* the walk's local: set of ids already popped once
    content,   \* traverse's local: the contents collected so far
    looked,    \* the ids the walk handed to self.get, in order
    asked,     \* the ids of the nodes whose tags traverse handed to the filter
    printed    \* the nodes bfs_dump printed, in order

vars ==
    <<root, repo, pc, call, ret, stack, visited, content, looked, asked, printed>>

Pending == [pending |-> TRUE]

\* HashMapRepo::new
Init ==
    /\ root = 0
    /\ repo = << >>
    /\ pc = "idle"
    /\ call = [op |-> "new"]
    /\ ret = Ok(Unit)
    /\ stack = << >>
    /\ visited = {}
    /\ content = << >>
    /\ looked = << >>
    /\ asked = << >>
    /\ printed = << >>

\* ----------------------------------------------------------- HashMapRepo
\* An insert that keeps the entry the key already has (entry().or_insert).
insert_if_absent(map, key, value) ==
    [k \in (DOMAIN map) \cup {key} |->
        IF k = key /\ key \notin DOMAIN map THEN value ELSE map[k]]

\* An insert that merges the tags of the entry it replaces into the new one.
insert_merging(map, key, value) ==
    [k \in (DOMAIN map) \cup {key} |->
        IF k # key
        THEN map[k]
        ELSE IF key \in DOMAIN map
             THEN [value EXCEPT !.tags = @ \cup map[key].tags]
             ELSE value]

\* HashMap::insert: the entry at key is replaced, the others are kept.
\* An insert that keeps nothing but the new entry.
insert_alone(map, key, value) == [k \in {key} |-> value]

insert(map, key, value) ==
    [k \in (DOMAIN map) \cup {key} |-> IF k = key THEN value ELSE map[k]]

\* A get that answers an absent key with the default node
\* (unwrap_or_default) instead of None.
get_or_default(m, id) ==
    Ok(Some(IF id \in DOMAIN m THEN m[id] ELSE Node(0, {}, Edges(<< >>))))

\* HashMapRepo::get on the map m.
get(m, id) == Ok(IF id \in DOMAIN m THEN Some(m[id]) ELSE None)

\* The walk's locals do not exist outside a walk.
NoLocals ==
    /\ stack' = << >>
    /\ visited' = {}
    /\ content' = << >>

\* The logs describe the latest walk only.
NoLog ==
    /\ looked' = << >>
    /\ asked' = << >>
    /\ printed' = << >>

\* HashMapRepo::root
Root ==
    /\ pc = "idle"
    /\ call' = [op |-> "root"]
    /\ ret' = Plain(root)
    /\ NoLocals
    /\ NoLog
    /\ UNCHANGED <<root, repo, pc>>

\* A get made with HashMap::remove: the node found is taken out of the map.
get_taking(id) ==
    /\ pc = "idle"
    /\ call' = [op |-> "get", id |-> id]
    /\ ret' = get(repo, id)
    /\ repo' = [k \in (DOMAIN repo) \ {id} |-> repo[k]]
    /\ NoLocals
    /\ NoLog
    /\ UNCHANGED <<root, pc>>

\* HashMapRepo::get
Get(id) ==
    /\ pc = "idle"
    /\ call' = [op |-> "get", id |-> id]
    /\ ret' = get(repo, id)
    /\ NoLocals
    /\ NoLog
    /\ UNCHANGED <<root, repo, pc>>

\* HashMapRepo::put.  call.replaced records whether the insert met an entry
\* with another value under the key (put drops what insert returns).
\* A put that validates the edge targets: it refuses a node that names an id
\* not in the store.
Put_validating(node) ==
    /\ pc = "idle"
    /\ LET missing == { k \in DOMAIN node.content.edges :
                           node.content.edges[k] \notin DOMAIN repo \cup {node.id} }
       IN  IF missing = {}
           THEN /\ repo' = insert(repo, node.id, node)
                /\ ret' = Ok(Unit)
           ELSE /\ repo' = repo
                /\ ret' = Err(UnknownNodeId(
                               node.content.edges[CHOOSE k \in missing : TRUE]))
    /\ call' = [op |-> "put", node |-> node,
                replaced |-> (node.id \in DOMAIN repo /\ repo[node.id] # node)]
    /\ NoLocals
    /\ NoLog
    /\ UNCHANGED <<root, pc>>

Put(node) ==
    /\ pc = "idle"
    /\ repo' = insert(repo, node.id, node)
    /\ call' = [op |-> "put", node |-> node,
                replaced |-> (node.id \in DOMAIN repo /\ repo[node.id] # node)]
    /\ ret' = Ok(Unit)
    /\ NoLocals
    /\ NoLog
    /\ UNCHANGED <<root, pc>>

\* ---------------------------------------------------------------- traverse
Range(s) == { s[k] : k \in DOMAIN s }

\* Vec::pop takes the last element.
Top(s) == s[Len(s)]

Pop(s) == SubSeq(s, 1, Len(s) - 1)

Reverse(e) == [k \in DOMAIN e |-> e[Len(e) + 1 - k]]

\* The slice appended back to front.
extend_reversed(s, e) == s \o Reverse(e)

\* The slice put under the work list: with pop at the end, a queue.
extend_at_front(s, e) == e \o s

\* Vec::extend_from_slice appends the slice in its order.
extend_from_slice(s, e) == s \o e

\* The visited set with the insert left out.
mark_forgotten(vis, id) == vis

\* HashSet::insert on the visited set.
mark(vis, id) == vis \cup {id}

\* The match without its Edges arm's exclusivity: a container is expanded and
\* also goes through the leaf arm.
visit_collecting_edges(n, f, st, out, log) ==
    [stack |-> IF n.content.variant = "Edges"
               THEN extend_from_slice(st, n.content.edges)
               ELSE st,
     content |-> IF filter(f, n.tags) THEN Append(out, n.content) ELSE out,
     asked |-> Append(log, n.id)]

\* The match with the filter asked before the content is looked at: a
\* container the filter rejects is not expanded.
visit_filtering_edges(n, f, st, out, log) ==
    IF ~filter(f, n.tags)
    THEN [stack |-> st, content |-> out, asked |-> Append(log, n.id)]
    ELSE IF n.content.variant = "Edges"
         THEN [stack |-> extend_from_slice(st, n.content.edges),
               content |-> out,
               asked |-> Append(log, n.id)]
         ELSE [stack |-> st,
               content |-> Append(out, n.content),
               asked |-> Append(log, n.id)]

\* NodeRepo::traverse, lines 45-52: the match on the content of a found node
\* n, given the filter f, the work list st, the output out and the filter log.
visit(n, f, st, out, log) ==
    IF n.content.variant = "Edges"
    THEN [stack |-> extend_from_slice(st, n.content.edges),
          content |-> out,
          asked |-> log]
    ELSE [stack |-> st,
          content |-> IF filter(f, n.tags) THEN Append(out, n.content) ELSE out,
          asked |-> Append(log, n.id)]

\* The walk ended on an absent id with what was collected so far.
absent_partial(id, out) == Ok(out)

\* NodeRepo::traverse, line 54: the lookup found nothing under id; out is the
\* output collected so far.
\* An absent id reported as the root, wherever it was met.
absent_root(id, out) == Err(UnknownNodeId(root))

\* An absent id that yields an empty result.
absent_empty(id, out) == Ok(<< >>)

absent(id, out) == Err(UnknownNodeId(id))

\* A traverse whose visited set lives on between calls: it starts with the
\* ids the walk before it has visited.
TraverseCall_shared_visited(f) ==
    /\ pc = "idle"
    /\ pc' = "traverse"
    /\ call' = [op |-> "traverse", filter |-> f,
                again |-> (call.op = "traverse" /\ call.filter = f)]
    /\ ret' = Pending
    /\ stack' = <<root>>
    /\ visited' = Range(looked)
    /\ content' = << >>
    /\ NoLog
    /\ UNCHANGED <<root, repo>>

\* NodeRepo::traverse, lines 34-37: the locals are set up.  call.again records
\* that the call before this one was a traverse with the same filter.
TraverseCall(f) ==
    /\ pc = "idle"
    /\ pc' = "traverse"
    /\ call' = [op |-> "traverse", filter |-> f,
                again |-> (call.op = "traverse" /\ call.filter = f)]
    /\ ret' = Pending
    /\ stack' = <<root>>
    /\ visited' = {}
    /\ content' = << >>
    /\ NoLog
    /\ UNCHANGED <<root, repo>>

\* NodeRepo::traverse, lines 40-56: one iteration of the while loop.
TraverseLoop ==
    /\ pc = "traverse"
    /\ stack # << >>
    /\ LET id == Top(stack)
           rest == Pop(stack)
           got == get(repo, id)
       IN  IF id \in visited
           THEN /\ stack' = rest
                /\ UNCHANGED <<pc, ret, visited, content, looked, asked>>
           ELSE /\ looked' = Append(looked, id)
                /\ IF got.val.some
                   THEN LET v == visit(got.val.val, call.filter, rest, content, asked)
                        IN  /\ visited' = mark(visited, id)
                            /\ stack' = v.stack
                            /\ content' = v.content
                            /\ asked' = v.asked
                            /\ UNCHANGED <<pc, ret>>
                   ELSE /\ pc' = "idle"
                        /\ ret' = absent(id, content)
                        /\ NoLocals
                        /\ UNCHANGED asked
    /\ UNCHANGED <<root, repo, call, printed>>

\* NodeRepo::traverse, lines 39-59 as a function: the loop run from the work
\* list st, the visited set vis and the output out on the map m with the
\* filter f.  It gives what traverse returns and the ids it looks up.
RECURSIVE traverse_loop(_, _, _, _, _, _)
traverse_loop(m, f, st, vis, out, lk) ==
    IF st = << >>
    THEN [ret |-> Ok(out), looked |-> lk]
    ELSE LET id == Top(st)
             rest == Pop(st)
             got == get(m, id)
         IN  IF id \in vis
             THEN traverse_loop(m, f, rest, vis, out, lk)
             ELSE IF got.val.some
                  THEN LET v == visit(got.val.val, f, rest, out, << >>)
                       IN  traverse_loop(m, f, v.stack, mark(vis, id),
                                         v.content, Append(lk, id))
                  ELSE [ret |-> absent(id, out), looked |-> Append(lk, id)]

\* NodeRepo::traverse, lines 30-60, on the map m with root r and filter f.
traverse(m, r, f) == traverse_loop(m, f, <<r>>, {}, << >>, << >>)

\* NodeRepo::traverse, lines 39 and 59: the work list is exhausted.
TraverseReturn ==
    /\ pc = "traverse"
    /\ stack = << >>
    /\ pc' = "idle"
    /\ ret' = Ok(content)
    /\ NoLocals
    /\ UNCHANGED <<root, repo, call, looked, asked, printed>>

\* ---------------------------------------------------------------- bfs_dump
\* NodeRepo::bfs_dump, lines 64-65.
BfsDumpCall ==
    /\ pc = "idle"
    /\ pc' = "bfs_dump"
    /\ call' = [op |-> "bfs_dump"]
    /\ ret' = Pending
    /\ stack' = <<root>>
    /\ visited' = {}
    /\ content' = << >>
    /\ NoLog
    /\ UNCHANGED <<root, repo>>

\* NodeRepo::bfs_dump, lines 68-79: one iteration of the while loop.  The
\* else branch that returns UnknownNodeId belongs to the visited test, not to
\* the lookup: an absent node is passed over, an id met a second time ends
\* the walk with the error.
BfsDumpLoop ==
    /\ pc = "bfs_dump"
    /\ stack # << >>
    /\ LET id == Top(stack)
           rest == Pop(stack)
           got == get(repo, id)
       IN  IF id \notin visited
           THEN /\ visited' = mark(visited, id)
                /\ looked' = Append(looked, id)
                /\ IF got.val.some
                   THEN LET n == got.val.val
                        IN  /\ printed' = Append(printed, n)
                            /\ stack' =
                                 IF n.content.variant = "Edges"
                                 THEN extend_from_slice(rest, n.content.edges)
                                 ELSE rest
                   ELSE /\ stack' = rest
                        /\ printed' = printed
                /\ UNCHANGED <<pc, ret, content>>
           ELSE /\ pc' = "idle"
                /\ ret' = Err(UnknownNodeId(id))
                /\ NoLocals
                /\ UNCHANGED <<looked, printed>>
    /\ UNCHANGED <<root, repo, call, asked>>

\* NodeRepo::bfs_dump, lines 67 and 82.
BfsDumpReturn ==
    /\ pc = "bfs_dump"
    /\ stack = << >>
    /\ pc' = "idle"
    /\ ret' = Ok(Unit)
    /\ NoLocals
    /\ UNCHANGED <<root, repo, call, looked, asked, printed>>

\* ------------------------------------------------------------ specification
Next ==
    \/ Root
    \/ \E id \in NodeIds : Get(id)
    \/ \E node \in Nodes : Put(node)
    \/ \E f \in Filters : TraverseCall(f)
    \/ TraverseLoop
    \/ TraverseReturn
    \/ BfsDumpCall
    \/ BfsDumpLoop
    \/ BfsDumpReturn

Spec == Init /\ [][Next]_vars

\* The same repository with callers that store other lists: [3, 1] next to
\* [1, 2] and [3], so that a node may list, after a new id, an id that a node
\* expanded earlier has listed too.
OrderPayloads ==
    { [tags |-> {"tag1"}, content |-> String("aaa")],
      [tags |-> {"tag2"}, content |-> String("bbb")],
      [tags |-> {}, content |-> Edges(<<3>>)],
      [tags |-> {}, content |-> Edges(<<1, 2>>)],
      [tags |-> {}, content |-> Edges(<<3, 1>>)] }

OrderNodes == { Node(i, p.tags, p.content) : i \in NodeIds, p \in OrderPayloads }

NextOrder ==
    \/ Root
    \/ \E id \in NodeIds : Get(id)
    \/ \E node \in OrderNodes : Put(node)
    \/ \E f \in Filters : TraverseCall(f)
    \/ TraverseLoop
    \/ TraverseReturn
    \/ BfsDumpCall
    \/ BfsDumpLoop
    \/ BfsDumpReturn

SpecOrder == Init /\ [][NextOrder]_vars

\* A walk that has been called keeps running until it returns.
FairSpec ==
    /\ Spec
    /\ WF_vars(TraverseLoop)
    /\ WF_vars(TraverseReturn)
    /\ WF_vars(BfsDumpLoop)
    /\ WF_vars(BfsDumpReturn)

\* ------------------------------------------------------------- the graph
\* The ids the stored node under i lists, if it is a stored Edges node.
Targets(m, i) ==
    IF i \in DOMAIN m /\ m[i].content.variant = "Edges"
    THEN Range(m[i].content.edges)
    ELSE {}

RECURSIVE Closure(_, _)
Closure(m, S) ==
    LET T == S \cup UNION { Targets(m, i) : i \in S }
    IN  IF T = S THEN S ELSE Closure(m, T)

\* The ids reachable from the root through stored Edges nodes, stored or not.
Reachable == Closure(repo, {root})

\* The stored leaf nodes' ids.
IsLeaf(n) == n.content.variant \in {"String", "Path"}

NoDuplicates(s) == \A j, k \in DOMAIN s : s[j] = s[k] => j = k

TraverseDone == pc = "idle" /\ call.op = "traverse"

BfsDumpDone == pc = "idle" /\ call.op = "bfs_dump"

\* Some reachable Edges node lies on a loop: it is reachable from its own list.
HasCycle ==
    \E i \in Reachable :
        Targets(repo, i) # {} /\ i \in Closure(repo, Targets(repo, i))

\* Some reachable id is listed more than once by the reachable Edges nodes.
HasSharedNode ==
    \E i \in Reachable :
        \/ \E j, k \in Reachable :
               j # k /\ i \in Targets(repo, j) /\ i \in Targets(repo, k)
        \/ \E j \in Reachable \cap DOMAIN repo :
               \E a, b \in DOMAIN repo[j].content.edges :
                   a # b /\ repo[j].content.edges[a] = i
                         /\ repo[j].content.edges[b] = i

\* ------------------------------------------------------------------ claims
\* Within one traverse call no id is looked up twice, every id looked up is
\* reachable from the root, and their number is at most the number of
\* reachable ids.
ProcessedOnce ==
    call.op = "traverse" =>
        /\ NoDuplicates(looked)
        /\ Range(looked) \subseteq Reachable
        /\ Len(looked) <= Cardinality(Reachable)

\* C1: on every store the puts can build, loops included, a traverse that was
\* called returns; during it each id is processed at most once and the number
\* of processed ids never exceeds the number of ids reachable from the root.
C1_TraverseTerminates ==
    /\ []ProcessedOnce
    /\ (pc = "traverse") ~> (pc = "idle")

\* C1 witness: a traverse has returned on a store with a loop and an id listed
\* more than once, having processed every reachable id.
C1_Witness ==
    /\ TraverseDone
    /\ HasCycle
    /\ HasSharedNode
    /\ ret.ok
    /\ Len(looked) = Cardinality(Reachable)
    /\ Len(looked) >= 3

Last(s) == s[Len(s)]

\* The ids that are not stored among those the looked-up Edges nodes list: the
\* dangling references the walk has reached.
DanglingReached ==
    { x \in UNION { Targets(repo, i) : i \in Range(looked) } : x \notin DOMAIN repo }

\* The looked-up ids whose stored node is a leaf the filter f accepts.
AcceptedLeaf(f, i) ==
    i \in DOMAIN repo /\ IsLeaf(repo[i]) /\ filter(f, repo[i].tags)

\* C2: on a store in which every id reachable from the root is stored, loops
\* and ids listed twice included, bfs_dump returns Ok(()) and has printed
\* every reachable node exactly once.
C2_BfsDumpVisitsAll ==
    (BfsDumpDone /\ Reachable \subseteq DOMAIN repo) =>
        /\ ret = Ok(Unit)
        /\ NoDuplicates(printed)
        /\ Range(printed) = { repo[i] : i \in Reachable }

\* C3 as amended: when the looked-up Edges nodes list ids that are not stored,
\* traverse returns the UnknownNodeId error and nothing else, and the id it
\* carries is the first such id the walk popped, the last id it looked up; it
\* is id_x when id_x is the only one.
C3_DanglingFails ==
    (TraverseDone /\ DanglingReached # {}) =>
        /\ ret = Err(UnknownNodeId(Last(looked)))
        /\ Last(looked) \in DanglingReached
        /\ \A k \in 1 .. Len(looked) - 1 : looked[k] \in DOMAIN repo
        /\ \A x \in NodeIds : DanglingReached = {x} => ret = Err(UnknownNodeId(x))

\* C3 as stated: for every id_x that a looked-up Edges node lists and that is
\* not stored, traverse returns the UnknownNodeId error carrying id_x.
C3_AsStated ==
    TraverseDone =>
        \A x \in DanglingReached : ret = Err(UnknownNodeId(x))

\* C3 witness: traverse has failed on an id that is not stored after it had
\* looked up a leaf the filter accepts.
C3_Witness ==
    /\ TraverseDone
    /\ DanglingReached # {}
    /\ ~ret.ok
    /\ \E k \in DOMAIN looked : AcceptedLeaf(call.filter, looked[k])

\* C4: bfs_dump returns the UnknownNodeId error when a node it has looked up
\* lists an id that is not stored, the error carries such an id, and
\* bfs_dump returns that error in no other situation.
C4_BfsDumpReportsDangling ==
    BfsDumpDone =>
        /\ DanglingReached # {} => (~ret.ok /\ ret.err.id \in DanglingReached)
        /\ ~ret.ok => (ret.err.kind = "UnknownNodeId" /\ ret.err.id \notin DOMAIN repo)

\* The store of nodecli.rs: root -> [3], 3 -> [1, 2], 1 = "aaa", 2 = "bbb".
DemoStore ==
    /\ {0, 1, 2, 3} \subseteq DOMAIN repo
    /\ repo[0].content = Edges(<<3>>)
    /\ repo[3].content = Edges(<<1, 2>>)
    /\ repo[1].content = String("aaa")
    /\ repo[2].content = String("bbb")

Count(s, c) == Cardinality({ k \in DOMAIN s : s[k] = c })

\* The reachable stored leaves whose tag set contains t.
TaggedLeaves(t) ==
    { i \in Reachable \cap DOMAIN repo : IsLeaf(repo[i]) /\ t \in repo[i].tags }

\* C6: on a store without reachable dangling ids, traverse(match-tag(t))
\* returns the contents of the reachable leaves whose tag set contains t, one
\* place per such leaf, and nothing else.
C6_MatchTag ==
    (TraverseDone /\ call.filter.kind = "match_tag" /\ Reachable \subseteq DOMAIN repo) =>
        LET t == call.filter.tag
        IN  /\ ret.ok
            /\ Len(ret.val) = Cardinality(TaggedLeaves(t))
            /\ \A i \in TaggedLeaves(t) :
                   Count(ret.val, repo[i].content) =
                       Cardinality({ j \in TaggedLeaves(t) :
                                       repo[j].content = repo[i].content })

\* C6 witness: traverse(match-tag(t)) has returned the content of a leaf
\* carrying t and has left out a reachable leaf without tags.
C6_Witness ==
    /\ TraverseDone
    /\ call.filter.kind = "match_tag"
    /\ Reachable \subseteq DOMAIN repo
    /\ ret.ok
    /\ Len(ret.val) >= 1
    /\ \E i \in Reachable : IsLeaf(repo[i]) /\ repo[i].tags = {}

\* Every place of the sequence s is the String or Path content of a stored
\* leaf.
LeafContents(s) ==
    \A k \in DOMAIN s :
        /\ s[k].variant \in {"String", "Path"}
        /\ \E i \in DOMAIN repo : IsLeaf(repo[i]) /\ repo[i].content = s[k]

\* C7: what a successful traverse returns, and what it has collected at any
\* moment, holds no Edges content: every element is the String or Path
\* content of a stored leaf.
C7_NoEdgesInOutput ==
    /\ call.op = "traverse" => LeafContents(content)
    /\ (TraverseDone /\ ret.ok) => LeafContents(ret.val)

\* C7 witness: a traverse that looked up an Edges node has returned a String
\* and a Path.
C7_Witness ==
    /\ TraverseDone
    /\ ret.ok
    /\ \E k \in DOMAIN looked : ~IsLeaf(repo[looked[k]])
    /\ \E k \in DOMAIN ret.val : ret.val[k].variant = "String"
    /\ \E k \in DOMAIN ret.val : ret.val[k].variant = "Path"

\* The ids of s that are stored leaves, in the order of s.
RECURSIVE LeavesOf(_)
LeavesOf(s) ==
    IF s = << >>
    THEN << >>
    ELSE LET i == Head(s)
         IN  IF i \in DOMAIN repo /\ IsLeaf(repo[i])
             THEN <<i>> \o LeavesOf(Tail(s))
             ELSE LeavesOf(Tail(s))

\* The contents of the leaves of s that the filter f accepts, in the order of s.
RECURSIVE AcceptedOf(_, _)
AcceptedOf(f, s) ==
    IF s = << >>
    THEN << >>
    ELSE IF filter(f, repo[Head(s)].tags)
         THEN <<repo[Head(s)].content>> \o AcceptedOf(f, Tail(s))
         ELSE AcceptedOf(f, Tail(s))

\* The filter is asked about the looked-up leaves and about nothing else; a
\* successful traverse has looked up everything its Edges nodes list and
\* returns the accepted leaves.
FilterOnLeavesOnly ==
    call.op = "traverse" =>
        /\ asked = LeavesOf(looked)
        /\ (TraverseDone /\ ret.ok) =>
               /\ \A i \in Range(looked) : Targets(repo, i) \subseteq Range(looked)
               /\ ret.val = AcceptedOf(call.filter, asked)

\* A loop iteration that finds an Edges node pushes its whole list, whatever
\* the node's tags, asks the filter nothing and collects nothing.
ExpandsEdges ==
    (pc = "traverse" /\ pc' = "traverse" /\ stack # << >>
        /\ Top(stack) \notin visited /\ Targets(repo, Top(stack)) # {}) =>
            /\ stack' = Pop(stack) \o repo[Top(stack)].content.edges
            /\ asked' = asked
            /\ content' = content

\* C8: traverse hands only leaves to the filter; an Edges node is expanded
\* whatever its tags, so an accepted leaf is collected also under a
\* container the filter would reject.
C8_EdgesNeverFiltered ==
    /\ []FilterOnLeavesOnly
    /\ [][ExpandsEdges]_vars

\* C8 witness: traverse(match-tag("tag2")) has returned the content of a leaf
\* listed by a tagged Edges node whose tags do not hold tag2.
C8_Witness ==
    /\ TraverseDone
    /\ ret.ok
    /\ call.filter = MatchTag("tag2")
    /\ \E j \in Range(looked) :
           /\ ~IsLeaf(repo[j])
           /\ repo[j].tags # {}
           /\ ~filter(call.filter, repo[j].tags)
           /\ \E i \in Targets(repo, j) :
                  /\ AcceptedLeaf(call.filter, i)
                  /\ Count(ret.val, repo[i].content) >= 1

\* C9: a get of n.id called right after put(n) returns Ok(Some(n)), whatever
\* the store held before.
C9_RoundTrip ==
    [][(call.op = "put" /\ call'.op = "get" /\ call'.id = call.node.id) =>
           ret' = Ok(Some(call.node))]_vars

\* C9 witness: a get has returned the node stored under its id in a store of
\* several nodes.
C9_Witness ==
    /\ call.op = "get"
    /\ call.id \in DOMAIN repo
    /\ ret = Ok(Some(repo[call.id]))
    /\ Cardinality(DOMAIN repo) >= 2

\* A put of n over a different node stored under n.id leaves n under that
\* key, with n's tags and content and nothing of the node it replaced.
Overwrites ==
    (pc = "idle" /\ call'.op = "put"
        /\ call'.node.id \in DOMAIN repo /\ repo[call'.node.id] # call'.node) =>
            LET n == call'.node
            IN  /\ get(repo', n.id) = Ok(Some(n))
                /\ get(repo', n.id) # Ok(Some(repo[n.id]))
                /\ repo'[n.id].tags = n.tags
                /\ repo'[n.id].content = n.content

\* A get of that id called after the overwriting put returns the new node.
GetAfterOverwrite ==
    (call.op = "put" /\ call.replaced /\ call'.op = "get" /\ call'.id = call.node.id) =>
        ret' = Ok(Some(call.node))

\* C10: put(n') over a different node n stored under the same id makes get of
\* that id return n' and not n; the entry is replaced whole, tags and edges.
C10_Overwrite ==
    /\ [][Overwrites]_vars
    /\ [][GetAfterOverwrite]_vars

\* C10 witness: a put has replaced a different node, and the store holds the
\* new one under the id.
C10_Witness ==
    /\ call.op = "put"
    /\ call.replaced
    /\ get(repo, call.node.id) = Ok(Some(call.node))

\* C11: a get of an id that is not stored (no put ever named it) returns
\* Ok(None), and no get returns an error, whatever the store holds.
C11_Absence ==
    call.op = "get" =>
        /\ ret.ok
        /\ call.id \notin DOMAIN repo => ret = Ok(None)

\* C11 witness: a get of an id that was never put has returned Ok(None) on a
\* store that holds nodes under other ids.
C11_Witness ==
    /\ call.op = "get"
    /\ call.id \notin DOMAIN repo
    /\ DOMAIN repo # {}
    /\ ret = Ok(None)

\* C12: a step of get, root, traverse or bfs_dump, the returns with an error
\* included, leaves the map and the root as they were; only put changes them.
C12_ReadOnly ==
    [][call'.op \in {"get", "root", "traverse", "bfs_dump"} =>
           (repo' = repo /\ root' = root)]_vars

\* C12 witness: a traverse has failed on a store that still holds its nodes.
C12_Witness ==
    /\ TraverseDone
    /\ ~ret.ok
    /\ Cardinality(DOMAIN repo) >= 2

\* The ids reachable from the ids of S through stored Edges nodes without
\* passing through an id of V.
RECURSIVE ClosureAvoiding(_, _, _)
ClosureAvoiding(m, S, V) ==
    LET T == S \cup (UNION { Targets(m, i) : i \in S } \ V)
    IN  IF T = S THEN S ELSE ClosureAvoiding(m, T, V)

\* The place of the id x in the sequence s without duplicates, 0 if absent.
Place(s, x) ==
    IF x \in Range(s) THEN CHOOSE k \in DOMAIN s : s[k] = x ELSE 0

\* The places of looked that hold a stored Edges node with a list [a, b] of
\* two different ids, neither looked up before the node was expanded.
Forks ==
    { k \in DOMAIN looked :
        LET j == looked[k]
        IN  /\ Targets(repo, j) # {}
            /\ Len(repo[j].content.edges) = 2
            /\ repo[j].content.edges[1] # repo[j].content.edges[2]
            /\ \A h \in 1 .. k : looked[h] \notin Range(repo[j].content.edges) }

\* What was not yet visited when the node at place k was expanded and is
\* reachable from the second id of its list.
NewFromB(k) ==
    ClosureAvoiding(repo, {repo[looked[k]].content.edges[2]},
                    { looked[h] : h \in 1 .. k })

\* A successful traverse returns the accepted leaves in the order in which
\* they were looked up.
InVisitationOrder ==
    (TraverseDone /\ ret.ok) =>
        ret.val = AcceptedOf(call.filter, LeavesOf(looked))

\* C13 as amended: when an Edges node with list [a, b] is expanded, a # b and
\* neither visited yet, b is processed before a, and so is everything newly
\* reachable from b unless a itself is newly reachable from b; the returned
\* contents are in visitation order.
C13_DepthFirst ==
    call.op = "traverse" =>
        /\ \A k \in Forks :
               LET a == repo[looked[k]].content.edges[1]
                   b == repo[looked[k]].content.edges[2]
               IN  a \in Range(looked) =>
                       /\ b \in Range(looked)
                       /\ Place(looked, b) < Place(looked, a)
                       /\ a \notin NewFromB(k) =>
                              \A x \in NewFromB(k) :
                                  /\ x \in Range(looked)
                                  /\ Place(looked, x) < Place(looked, a)
        /\ InVisitationOrder

\* C13 as stated: when an Edges node with list [a, b] is expanded, a # b and
\* neither visited yet, b and everything newly reachable from b is processed
\* before a; the returned contents are in visitation order.  Stated for the
\* walks that do not end on an absent id.
C13_AsStated ==
    (call.op = "traverse" /\ (TraverseDone => ret.ok)) =>
        /\ \A k \in Forks :
               LET a == repo[looked[k]].content.edges[1]
               IN  a \in Range(looked) =>
                       \A x \in NewFromB(k) \ {a} :
                           /\ x \in Range(looked)
                           /\ Place(looked, x) < Place(looked, a)
        /\ InVisitationOrder

\* C13 witness: a traverse has returned two contents after expanding a node
\* with list [a, b] where b is an Edges node that led to a new id, all
\* processed before a.
C13_Witness ==
    /\ TraverseDone
    /\ ret.ok
    /\ Len(ret.val) >= 2
    /\ \E k \in Forks :
           /\ repo[looked[k]].content.edges[1] \notin NewFromB(k)
           /\ Cardinality(NewFromB(k)) >= 2

\* The ids of the nodes of the sequence s.
IdsOf(s) == [k \in DOMAIN s |-> s[k].id]

\* C14: on every store on which traverse succeeds, bfs_dump returns Ok(())
\* and the ids of the nodes it prints, in order, are the ids traverse looks
\* up, Edges nodes included.
C14_SameOrder ==
    (BfsDumpDone /\ traverse(repo, root, AcceptAll).ret.ok) =>
        /\ ret = Ok(Unit)
        /\ IdsOf(printed) = traverse(repo, root, AcceptAll).looked

\* C16: what a traverse returns, and what it looks up, is what the store and
\* the filter determine, also when the call before it was a traverse with the
\* same filter on the same store: the second call returns what the first did.
C16_WalkStateIsLocal ==
    TraverseDone =>
        /\ ret = traverse(repo, root, call.filter).ret
        /\ looked = traverse(repo, root, call.filter).looked

\* C16 witness: the second of two traverse calls in a row with the same filter
\* has returned contents on a store with several reachable nodes.
C16_Witness ==
    /\ TraverseDone
    /\ call.again
    /\ ret.ok
    /\ Len(ret.val) >= 2
    /\ Len(looked) >= 3

\* ---------------------------------------------------------------- C15
\* The ids a node names in its edge list.
Named(n) == Range(n.content.edges)

\* A put step that leaves no reachable id absent where one was before.
Repairs ==
    /\ call'.op = "put"
    /\ ~(Reachable \subseteq DOMAIN repo)
    /\ Closure(repo', {root'}) \subseteq DOMAIN repo'

\* C15: put returns Ok(()) and stores the node whatever its edge list names;
\* a traverse on a store with a reachable absent id fails and a traverse on a
\* store without one succeeds; and after a put that leaves no reachable id
\* absent, traverse succeeds with every filter.
C15_DanglingIsTransient ==
    /\ [](call.op = "put" =>
              /\ ret = Ok(Unit)
              /\ get(repo, call.node.id) = Ok(Some(call.node)))
    /\ [](TraverseDone /\ ~(Reachable \subseteq DOMAIN repo) => ~ret.ok)
    /\ [](TraverseDone /\ Reachable \subseteq DOMAIN repo => ret.ok)
    /\ [][Repairs => \A f \in Filters : traverse(repo', root', f).ret.ok]_vars

\* C15 witness: put has stored, under a reachable id, an Edges node that names
\* an id not in the store.
C15_Witness ==
    /\ call.op = "put"
    /\ ret = Ok(Unit)
    /\ call.node.id \in Reachable
    /\ repo[call.node.id] = call.node
    /\ \E x \in Named(call.node) : x \notin DOMAIN repo /\ x # call.node.id

\* The state after a repairing put: the node just put is new, it is named by
\* another stored reachable node, and no reachable id is absent.
C15_Repaired ==
    /\ call.op = "put"
    /\ ~call.replaced
    /\ call.node.id # root
    /\ \E i \in (Reachable \cap DOMAIN repo) \ {call.node.id} :
           call.node.id \in Targets(repo, i)
    /\ Reachable \subseteq DOMAIN repo

\* ---------------------------------------------------------------- C17
\* C17: a put changes the entry at the key of its node and no other, no step
\* removes a key, the root id stays 0 and root() returns it.
C17_PutFrame ==
    [][/\ DOMAIN repo \subseteq DOMAIN repo'
       /\ root = 0 /\ root' = 0
       /\ call'.op = "root" => ret' = Plain(0)
       /\ call'.op = "put" =>
              /\ DOMAIN repo' = DOMAIN repo \cup {call'.node.id}
              /\ \A k \in DOMAIN repo \ {call'.node.id} : repo'[k] = repo[k]]_vars

\* C17 witness: a put has overwritten one entry of a store with three or more.
C17_Witness ==
    /\ call.op = "put"
    /\ call.replaced
    /\ Cardinality(DOMAIN repo) >= 3

\* ---------------------------------------------------------------- C18
\* The reachable stored leaves.
ReachableLeaves == { i \in Reachable \cap DOMAIN repo : IsLeaf(repo[i]) }

\* C18: on a store without reachable absent ids, traverse(accept-all) returns
\* the contents of the reachable leaves, one place per leaf, and nothing else.
C18_Complete ==
    (TraverseDone /\ call.filter = AcceptAll /\ Reachable \subseteq DOMAIN repo) =>
        /\ ret.ok
        /\ Len(ret.val) = Cardinality(ReachableLeaves)
        /\ \A k \in DOMAIN ret.val :
               Count(ret.val, ret.val[k]) =
                   Cardinality({ j \in ReachableLeaves : repo[j].content = ret.val[k] })
        /\ \A i \in ReachableLeaves : Count(ret.val, repo[i].content) >= 1

\* C18 witness: traverse(accept-all) has returned the contents of two leaves,
\* one with tags and one without, and the store holds a leaf that is not
\* reachable, with a content that is not returned.
C18_Witness ==
    /\ TraverseDone
    /\ call.filter = AcceptAll
    /\ ret.ok
    /\ Len(ret.val) >= 2
    /\ \E i \in ReachableLeaves : repo[i].tags = {}
    /\ \E j \in DOMAIN repo \ Reachable :
           IsLeaf(repo[j]) /\ Count(ret.val, repo[j].content) = 0

\* ---------------------------------------------------------------- C19
\* C19: traverse fails exactly when an id reachable from the root is absent,
\* and the id it reports is reachable and absent.
C19_FailsIffDangling ==
    TraverseDone =>
        /\ ~ret.ok <=> (\E x \in Reachable : x \notin DOMAIN repo)
        /\ ~ret.ok => (ret.err.id \in Reachable /\ ret.err.id \notin DOMAIN repo)

\* C19 witness: traverse has succeeded on a store where a node that is not
\* reachable names an absent id.
C19_Witness ==
    /\ TraverseDone
    /\ ret.ok
    /\ \E i \in DOMAIN repo \ Reachable :
           \E x \in Targets(repo, i) : x \notin DOMAIN repo

\* ---------------------------------------------------------------- C20
\* C20: while no node is stored under the root id, traverse returns
\* Err(UnknownNodeId(root)) after looking up the root and nothing else.
C20_RootIsChecked ==
    (TraverseDone /\ root \notin DOMAIN repo) =>
        /\ ret = Err(UnknownNodeId(root))
        /\ looked = <<root>>

\* C20 witness: traverse has returned on a store that holds nodes, none of
\* them under the root id.
C20_Witness ==
    /\ TraverseDone
    /\ root \notin DOMAIN repo
    /\ Cardinality(DOMAIN repo) >= 2
    /\ ~ret.ok

====
